---- MODULE Spec2Model ----
(***************************************************************************)
(* PathStore (src/src/lib.rs): a tree of path components with an optional  *)
(* payload per node, add_path (insert or update by path), walk (the leaf   *)
(* paths) and size.                                                        *)
(*                                                                         *)
(* Strings.  A path string (OsString, Path, PathBuf) is represented by the *)
(* list of the pieces between its '/' separators, so that                  *)
(*     ""      is <<"">>           "/"     is <<"", "">>                    *)
(*     "a"     is <<"a">>          "/a"    is <<"", "a">>                   *)
(*     "/a/"   is <<"", "a", "">>  "//a"   is <<"", "", "a">>               *)
(*     "/a/./b" is <<"", "a", ".", "b">>                                    *)
(* Every string has exactly one such list and two strings are equal iff    *)
(* their lists are.  The paths are Unix paths.                             *)
(*                                                                         *)
(* Nodes.  Rc<RwLock<PathNode>> handles are indices into the sequence      *)
(* nodes, which lists every node allocated so far in the order of          *)
(* allocation; index 1 is the root.  A node that HashMap::insert has       *)
(* replaced in its parent's mapping stays in the sequence, detached.  A    *)
(* Weak parent reference is the parent's index, and 0 stands for           *)
(* Option::None.                                                           *)
(***************************************************************************)
EXTENDS Integers, Sequences, FiniteSets, TLC

\* ------------------------------------------------------------------ bounds
\* The longest absolute input string, counted in pieces (the empty piece
\* before the leading separator included).
MaxSegs == 3
\* The longest relative input string, counted in pieces: add_path looks at
\* nothing of a relative path but is_absolute.
MaxRelSegs == 1
\* add_path is not called when it would bring size above MaxNodes.
MaxNodes == 3
\* SpecRoundTrip: the most paths in the set inserted.
MaxSet == 2

\* The pieces input strings are made of: the empty piece (a doubled or
\* trailing separator), ".", ".." and an ordinary name; ".." and the name
\* are the two component names there are.
Pieces == {"", ".", "..", "a"}
None == "None"
\* Option<T>: None, or Some payload.
Data == {None, "x"}

Strings(n) == UNION {[1..k -> Pieces] : k \in 1..n}

\* ----------------------------------------------------------- std::path
\* Path::is_absolute on Unix: the string starts with '/'.
is_absolute(p) == Len(p) >= 2 /\ p[1] = ""

RootDir == <<"", "">>

\* The strings add_path is called with.
PathStrings ==
    {p \in Strings(MaxSegs) : is_absolute(p)}
        \cup {p \in Strings(MaxRelSegs) : ~is_absolute(p)}

RECURSIVE body_components(_, _)
\* The components of the pieces ps after the start of the path: empty
\* pieces (repeated or trailing separators) and "." are skipped, ".." and
\* names are kept, each as its own string.
body_components(ps, first) ==
    IF ps = <<>> THEN <<>>
    ELSE IF Head(ps) = "" \/ (Head(ps) = "." /\ ~first)
         THEN body_components(Tail(ps), FALSE)
         ELSE <<(<<Head(ps)>>)>> \o body_components(Tail(ps), FALSE)

\* Path::components, each component as its as_os_str(): RootDir first for an
\* absolute path; a relative path keeps a leading "." (CurDir).
components(p) ==
    IF is_absolute(p) THEN <<RootDir>> \o body_components(Tail(p), FALSE)
    ELSE body_components(p, TRUE)

\* Iterator::skip(1): the sequence without its first element, if any.
skip1(s) == IF s = <<>> THEN <<>> ELSE Tail(s)

\* push as it would be if the separator were added in every case.
push_always_separator(buf, path) ==
    IF is_absolute(path) THEN path ELSE buf \o path

\* PathBuf::push: an absolute argument replaces the buffer; otherwise a
\* separator is added unless the buffer is empty or ends with one.
push(buf, path) ==
    IF is_absolute(path) THEN path
    ELSE IF buf[Len(buf)] # "" THEN buf \o path
         ELSE SubSeq(buf, 1, Len(buf) - 1) \o path

\* pop as it would be if the buffer were left as it is.
pop_forgotten(buf) == buf

\* PathBuf::pop: truncate to Path::parent; nothing happens when the buffer
\* has no parent (it is the root or empty).  The buffers of walk_inner end
\* in the name pushed last.
pop(buf) ==
    IF Len(components(buf)) <= 1 /\ (is_absolute(buf) \/ components(buf) = <<>>)
    THEN buf
    ELSE IF Len(buf) = 2 /\ is_absolute(buf) THEN RootDir
         ELSE IF Len(buf) = 1 THEN <<"">>
              ELSE SubSeq(buf, 1, Len(buf) - 1)

\* --------------------------------------------------------------- PathNode
EmptyMap == [k \in {} |-> 0]

\* HashMap::insert: the key's old value, if any, is replaced.
map_insert(m, k, v) == [x \in DOMAIN m \cup {k} |-> IF x = k THEN v ELSE m[x]]

PathNode_root(data) ==
    [name |-> RootDir, data |-> data, items |-> EmptyMap, parent |-> 0]

PathNode_new(name, data, parent) ==
    [name |-> name, data |-> data, items |-> EmptyMap, parent |-> parent]

\* set_data as it would be if an absent payload left the old one in place.
set_data_keeps_on_none(ns, id, data) ==
    IF data = None THEN ns ELSE [ns EXCEPT ![id].data = data]

\* PathNode::set_data on node id of the heap ns.
set_data(ns, id, data) == [ns EXCEPT ![id].data = data]

VARIABLES
    nodes,      \* the heap of PathNodes; nodes[1] is PathStore::root
    size,       \* PathStore::size
    call,       \* the caller: the call it made last and its result
    inserted,   \* the caller's log: the paths add_path returned Ok for
    given,      \* SpecRoundTrip: the set of path strings to insert
    todo,       \* SpecRoundTrip: those not inserted yet
    threads,    \* SpecThreads: the add_path call each thread is in
    coarse      \* SpecThreads: whether add_path holds the store exclusively

vars == <<nodes, size, call, inserted, given, todo, threads, coarse>>

Root == 1

\* -------------------------------------------------------------- add_path
\* A frame is the state of one add_path call inside its loop: the heap and
\* the counter it works on, the remaining components, the cursor
\* current_in_tree and the flag changed.
Frame(ns, sz, comp) ==
    [nodes |-> ns, size |-> sz, comp |-> comp, cur |-> Root, changed |-> FALSE]

\* items.get(item) finds a child.
has_child(f) == Head(f.comp) \in DOMAIN f.nodes[f.cur].items

\* descend as it would be if size were incremented for a segment found.
descend_counting(f) ==
    [f EXCEPT !.cur = f.nodes[f.cur].items[Head(f.comp)], !.comp = Tail(f.comp),
              !.size = f.size + 1]

\* descend as it would be if changed were set for a segment found.
descend_changing(f) ==
    [f EXCEPT !.cur = f.nodes[f.cur].items[Head(f.comp)], !.comp = Tail(f.comp),
              !.changed = TRUE]

\* The branch of the loop that finds the child: the cursor moves to it.
descend(f) ==
    [f EXCEPT !.cur = f.nodes[f.cur].items[Head(f.comp)], !.comp = Tail(f.comp)]

\* create_child as it would be if changed were not set.
create_child_unflagged(f) ==
    [f EXCEPT !.size = f.size + 1,
              !.nodes = Append(f.nodes, PathNode_new(Head(f.comp), None, f.cur))]

\* The branch that does not: size is incremented, changed is set and the
\* node is allocated with a parent reference to the cursor ...
create_child(f) ==
    [f EXCEPT !.size = f.size + 1,
              !.changed = TRUE,
              !.nodes = Append(f.nodes, PathNode_new(Head(f.comp), None, f.cur))]

\* insert_child as it would be if the node were registered under the root.
insert_child_at_root(f, to_add) ==
    [f EXCEPT !.nodes[Root].items = map_insert(f.nodes[Root].items, Head(f.comp), to_add),
              !.cur = to_add,
              !.comp = Tail(f.comp)]

\* ... and then registered, under the write lock, in the child mapping of
\* the cursor, which moves to it.
insert_child(f, to_add) ==
    [f EXCEPT !.nodes[f.cur].items = map_insert(f.nodes[f.cur].items, Head(f.comp), to_add),
              !.cur = to_add,
              !.comp = Tail(f.comp)]

RECURSIVE add_loop(_)
add_loop(f) ==
    IF f.comp = <<>> THEN f
    ELSE IF has_child(f) THEN add_loop(descend(f))
         ELSE add_loop(insert_child(create_child(f), Len(f.nodes) + 1))

\* add_path as it would be without the check of is_absolute.
add_path_unchecked(ns, sz, path, data) ==
    LET f == add_loop(Frame(ns, sz, skip1(components(path))))
    IN  [nodes |-> set_data(f.nodes, f.cur, data), size |-> f.size,
         ret |-> IF f.changed THEN "Ok(true)" ELSE "Ok(false)"]

\* PathStore::add_path as a function of the store: the new heap and size,
\* and the value returned.
add_path(ns, sz, path, data) ==
    IF ~is_absolute(path)
    THEN [nodes |-> ns, size |-> sz, ret |-> "Err(PathNotRelative)"]
    ELSE LET f == add_loop(Frame(ns, sz, skip1(components(path))))
         IN  [nodes |-> set_data(f.nodes, f.cur, data), size |-> f.size,
              ret |-> IF f.changed THEN "Ok(true)" ELSE "Ok(false)"]

\* ------------------------------------------------------------------ walk
Range(f) == {f[k] : k \in DOMAIN f}

\* The orders in which a HashMap with the keys ks can be iterated: every
\* sequence of its keys, each once.
KeyOrders(ks) ==
    {o \in [1..Cardinality(ks) -> ks] : \A i, j \in 1..Cardinality(ks) : o[i] = o[j] => i = j}

RECURSIVE OrdersUpTo(_, _)
OrdersUpTo(ns, n) ==
    IF n = 0 THEN {<<>>}
    ELSE {Append(f, o) : f \in OrdersUpTo(ns, n - 1), o \in KeyOrders(DOMAIN ns[n].items)}

\* The iteration orders of all HashMaps of the heap: one for each node,
\* chosen independently.
Orders(ns) == OrdersUpTo(ns, Len(ns))

\* items.values() of node id as a sequence, in the iteration order ord.
values(ns, id, ord) == [i \in 1..Len(ord[id]) |-> ns[id].items[ord[id][i]]]

RECURSIVE walk_inner(_, _, _, _, _), walk_items(_, _, _, _, _)
\* walk_inner returns the pair of its two out-parameters.
walk_inner(ns, id, current_dir, out, ord) ==
    LET dir == push(current_dir, ns[id].name)
        r == IF DOMAIN ns[id].items = {}
             THEN [dir |-> dir, out |-> Append(out, dir)]
             ELSE walk_items(ns, values(ns, id, ord), dir, out, ord)
    IN  [dir |-> pop(r.dir), out |-> r.out]

walk_items(ns, items, dir, out, ord) ==
    IF items = <<>> THEN [dir |-> dir, out |-> out]
    ELSE LET r == walk_inner(ns, Head(items), dir, out, ord)
         IN  walk_items(ns, Tail(items), r.dir, r.out, ord)

\* walk as it would be if a root without children yielded nothing.
walk_skipping_bare_root(ns, ord) ==
    IF DOMAIN ns[Root].items = {} THEN <<>>
    ELSE walk_inner(ns, Root, <<"">>, <<>>, ord).out

walk(ns, ord) == walk_inner(ns, Root, <<"">>, <<>>, ord).out

\* --------------------------------------------------------------- actions
\* call is the caller's side of the store: the call it made last with its
\* arguments and its result, until the caller has taken the result (Return);
\* a call is made when the result of the one before has been taken.
Call(op, path, data, ret, out) ==
    [op |-> op, path |-> path, data |-> data, ret |-> ret, out |-> out]

Err == "Err(PathNotRelative)"

\* A path as a value: the list of its component names after the root.  Two
\* strings with the same components are the same path (Path's Eq).
PathValue(p) == skip1(components(p))

\* PathStore::new(data)
New ==
    /\ \E d \in Data :
        /\ nodes = <<PathNode_root(d)>>
        /\ call = Call("new", <<"">>, d, None, <<>>)
    /\ size = 0
    /\ inserted = {}

Init ==
    /\ New
    /\ given = {} /\ todo = {}
    /\ threads = <<>> /\ coarse = TRUE

\* add_path(p, d) on the store.
AddPathOf(p, d) ==
    LET r == add_path(nodes, size, p, d)
    IN  /\ nodes' = r.nodes
        /\ size' = r.size
        /\ call' = Call("add_path", p, d, r.ret, <<>>)

WalkOf(ord) ==
    /\ call' = Call("walk", <<"">>, None, None, walk(nodes, ord))
    /\ UNCHANGED <<nodes, size>>

AddPath ==
    /\ call.op = "none"
    /\ \E p \in PathStrings, d \in Data : AddPathOf(p, d)
    /\ size' <= MaxNodes
    /\ UNCHANGED <<inserted, given, todo, threads, coarse>>

Walk ==
    /\ call.op = "none"
    /\ \E ord \in Orders(nodes) : WalkOf(ord)
    /\ UNCHANGED <<inserted, given, todo, threads, coarse>>

Size ==
    /\ call.op = "none"
    /\ call' = Call("size", <<"">>, None, size, <<>>)
    /\ UNCHANGED <<nodes, size, inserted, given, todo, threads, coarse>>

\* The caller takes the result; it logs the path of a successful add_path.
Return ==
    /\ call.op # "none"
    /\ call' = Call("none", <<"">>, None, None, <<>>)
    /\ inserted' = IF call.op = "add_path" /\ call.ret # Err
                   THEN inserted \cup {PathValue(call.path)}
                   ELSE inserted
    /\ UNCHANGED <<nodes, size, given, todo, threads, coarse>>

Next == AddPath \/ Walk \/ Size \/ Return

Spec == Init /\ [][Next]_vars

\* ------------------------------------------------- SpecRoundTrip (C5)
\* A set of absolute path strings is inserted into a new store, each string
\* once and in any order, and walk is called when all are in.
AbsStrings == {p \in PathStrings : is_absolute(p)}

IsPrefix(s, t) == Len(s) <= Len(t) /\ SubSeq(t, 1, Len(s)) = s

\* No path of S is a prefix of another (Path::starts_with: whole components).
PrefixFree(S) ==
    \A p, q \in S : p # q => ~IsPrefix(PathValue(p), PathValue(q))

SetsUpTo(n) == {{}} \cup {{s[i] : i \in 1..n} : s \in [1..n -> AbsStrings]}

InitRoundTrip ==
    /\ New
    /\ given \in {S \in SetsUpTo(MaxSet) : PrefixFree(S)}
    /\ todo = given
    /\ threads = <<>> /\ coarse = TRUE

Insert ==
    /\ call.op # "walk"
    /\ \E p \in todo, d \in Data :
        /\ AddPathOf(p, d)
        /\ todo' = todo \ {p}
    /\ UNCHANGED <<inserted, given, threads, coarse>>

WalkAll ==
    /\ call.op # "walk"
    /\ todo = {}
    /\ \E ord \in Orders(nodes) : WalkOf(ord)
    /\ UNCHANGED <<inserted, given, todo, threads, coarse>>

NextRoundTrip == Insert \/ WalkAll

SpecRoundTrip == InitRoundTrip /\ [][NextRoundTrip]_vars

\* --------------------------------------------------- SpecThreads (C9)
\* Two threads call add_path on the same store, each step of a call being
\* what the call does while it holds one node's lock: the look-up of the
\* child and, when there is none, the allocation of the new node (read lock,
\* lines 74-90), the registration of the new node (write lock, lines 92-96),
\* and set_data (write lock, line 100).  No lock is held from one step to
\* the next.  With coarse the call has the store to itself, as `&mut self`
\* requires; without, the calls interleave.
Threads == {1, 2}

Idle == [pc |-> "idle", comp |-> <<>>, cur |-> 0, changed |-> FALSE,
         to_add |-> 0, data |-> None]

\* exclusive as it would be if add_path took the store by `&self`.
exclusive_shared(t) == TRUE

\* The exclusive borrow of the store by add_path(&mut self, ...): with
\* coarse, no other call is in progress when thread t starts one.
exclusive(t) == coarse => \A u \in Threads \ {t} : threads[u].pc = "idle"

\* The frame of thread t's call on the store as it is now.
FrameOf(t) ==
    [nodes |-> nodes, size |-> size, comp |-> threads[t].comp,
     cur |-> threads[t].cur, changed |-> threads[t].changed]

InitThreads ==
    /\ New
    /\ given = {} /\ todo = {}
    /\ threads = [t \in Threads |-> Idle]
    /\ coarse \in BOOLEAN

\* Thread t calls add_path(p, d): a relative path returns at once.  The
\* threads pass no payload: what SpecThreads is about is the structure.
Begin(t) ==
    /\ threads[t].pc = "idle"
    /\ exclusive(t)
    /\ \E p \in PathStrings, d \in {None} :
        threads' = IF ~is_absolute(p) THEN threads
                   ELSE [threads EXCEPT ![t] =
                            [Idle EXCEPT !.pc = "loop", !.comp = skip1(components(p)),
                                         !.cur = Root, !.data = d]]
    /\ UNCHANGED <<nodes, size, call, inserted, given, todo, coarse>>

\* Under the read lock of the cursor: the child is found and the cursor
\* moves, or it is not and the new node is allocated and counted.
Look(t) ==
    /\ threads[t].pc = "loop" /\ threads[t].comp # <<>>
    /\ LET f == FrameOf(t)
           g == IF has_child(f) THEN descend(f) ELSE create_child(f)
       IN  /\ g.size <= MaxNodes
           /\ nodes' = g.nodes
           /\ size' = g.size
           /\ threads' = [threads EXCEPT ![t].comp = g.comp, ![t].cur = g.cur,
                                         ![t].changed = g.changed,
                                         ![t].pc = IF has_child(f) THEN "loop" ELSE "insert",
                                         ![t].to_add = IF has_child(f) THEN 0 ELSE Len(g.nodes)]
    /\ UNCHANGED <<call, inserted, given, todo, coarse>>

\* Under the write lock of the cursor: the new node is registered.
Register(t) ==
    /\ threads[t].pc = "insert"
    /\ LET g == insert_child(FrameOf(t), threads[t].to_add)
       IN  /\ nodes' = g.nodes
           /\ threads' = [threads EXCEPT ![t].comp = g.comp, ![t].cur = g.cur,
                                         ![t].pc = "loop", ![t].to_add = 0]
    /\ UNCHANGED <<size, call, inserted, given, todo, coarse>>

\* All components consumed: set_data under the write lock, and return.
Finish(t) ==
    /\ threads[t].pc = "loop" /\ threads[t].comp = <<>>
    /\ nodes' = set_data(nodes, threads[t].cur, threads[t].data)
    /\ threads' = [threads EXCEPT ![t] = Idle]
    /\ UNCHANGED <<size, call, inserted, given, todo, coarse>>

NextThreads == \E t \in Threads : Begin(t) \/ Look(t) \/ Register(t) \/ Finish(t)

SpecThreads == InitThreads /\ [][NextThreads]_vars

\* ------------------------------------------------------ reading a store
\* The nodes registered in the child mapping of node id.
Children(ns, id) == Range(ns[id].items)

RECURSIVE Closure(_, _)
Closure(ns, reached) ==
    LET more == reached \cup UNION {Children(ns, i) : i \in reached}
    IN  IF more = reached THEN reached ELSE Closure(ns, more)

\* The nodes present in the tree: those reachable from the root by child
\* edges.
Present(ns) == Closure(ns, {Root})

RECURSIVE NamesTo(_, _, _)
\* The names on the way from the root to node id, found by following the
\* parent references upwards for at most fuel steps.
NamesTo(ns, id, fuel) ==
    IF ns[id].parent = 0 \/ fuel = 0 THEN <<>>
    ELSE Append(NamesTo(ns, ns[id].parent, fuel - 1), ns[id].name)

NodePath(ns, id) == NamesTo(ns, id, Len(ns))

\* The node of the tree at the path with the names cs, a set of at most one
\* node in a well-formed tree.
NodesAt(ns, cs) == {id \in Present(ns) : NodePath(ns, id) = cs}

Exists(ns, cs) == NodesAt(ns, cs) # {}

Prefix(s, n) == SubSeq(s, 1, n)

RECURSIVE Join(_)
\* The string of the names cs, each preceded by one separator.
Join(cs) == IF cs = <<>> THEN <<>> ELSE Head(cs) \o Join(Tail(cs))

\* The full path of the names cs as a string: "/" for the root, and
\* "/n1/n2/.../nk" otherwise.
PathString(cs) == IF cs = <<>> THEN RootDir ELSE <<"">> \o Join(cs)

SetOf(seq) == {seq[i] : i \in 1..Len(seq)}

Leaves(ns) == {id \in Present(ns) : DOMAIN ns[id].items = {}}

LeafPaths(ns) == {PathString(NodePath(ns, id)) : id \in Leaves(ns)}

\* The call just made is an add_path with an absolute path.
Added == call.op = "add_path" /\ call.path[1] = "" /\ Len(call.path) > 1

\* ---------------------------------------------------------------- claims

\* C1: in every reachable state size equals the number of non-root nodes
\* present in the tree, and size() returns that number; a segment shared by
\* several inserted paths is counted once.
SizeIsNodeCount ==
    /\ size = Cardinality(Present(nodes)) - 1
    /\ size = Len(nodes) - 1
    /\ call.op = "size" => call.ret = Cardinality(Present(nodes)) - 1

\* size() is called on a store where two inserted paths share their first
\* segment, which was inserted itself too; absolute and relative calls mixed.
SizeWitness ==
    /\ call.op = "size"
    /\ call.ret = 3
    /\ \E p, q \in inserted :
        /\ p # q /\ Len(p) = 2 /\ Len(q) = 2 /\ p[1] = q[1]
        /\ <<p[1]>> \in inserted

\* The step is a call of add_path (with an absolute path, for AddsAbsolute).
Adds == call.op = "none" /\ call'.op = "add_path"

AddsAbsolute == Adds /\ is_absolute(call'.path)

\* The length of the longest prefix of the names cs that is a node of ns.
LongestExisting(ns, cs) ==
    CHOOSE k \in 0..Len(cs) :
        /\ Exists(ns, Prefix(cs, k))
        /\ \A j \in (k + 1)..Len(cs) : ~Exists(ns, Prefix(cs, j))

\* C2: add_path with a non-absolute path returns the error, in any state,
\* and leaves size, the nodes, the child mappings and the payloads as they
\* were.
NonAbsoluteRejected ==
    [][(Adds /\ ~is_absolute(call'.path))
        => call'.ret = Err /\ nodes' = nodes /\ size' = size]_vars

\* A relative path has been rejected by a store that holds nodes.
RejectedWitness ==
    /\ call.op = "add_path" /\ call.path = <<"a">>
    /\ call.ret = Err
    /\ size = 2

\* C3: add_path with an absolute path returns true iff it created a node,
\* i.e. iff some prefix of the path was no node before the call, and false
\* iff the whole path was one; size grows by the number of segments beyond
\* the longest prefix that existed.
AddPathResult ==
    [][AddsAbsolute =>
        LET cs == PathValue(call'.path)
        IN  /\ call'.ret \in {"Ok(true)", "Ok(false)"}
            /\ call'.ret = "Ok(true)" <=> Len(nodes') > Len(nodes)
            /\ call'.ret = "Ok(true)" <=>
                    \E j \in 1..Len(cs) : ~Exists(nodes, Prefix(cs, j))
            /\ call'.ret = "Ok(false)" <=> Exists(nodes, cs)
            /\ size' - size = Len(cs) - LongestExisting(nodes, cs)
            /\ Cardinality(Present(nodes')) - Cardinality(Present(nodes))
                    = Len(cs) - LongestExisting(nodes, cs)]_vars

\* add_path returned false for a path that was never inserted itself and is
\* a proper prefix of an inserted one.
AddPathResultWitness ==
    /\ Added /\ call.ret = "Ok(false)"
    /\ PathValue(call.path) # <<>>
    /\ PathValue(call.path) \notin inserted
    /\ \E q \in inserted : IsPrefix(PathValue(call.path), q)

\* C4: walk returns the full paths of the nodes without children, each
\* once and nothing else, and leaves the store as it was.
WalkReturnsLeaves ==
    [][(call.op = "none" /\ call'.op = "walk") =>
        /\ SetOf(call'.out) = LeafPaths(nodes)
        /\ Len(call'.out) = Cardinality(Leaves(nodes))
        /\ \A id \in Present(nodes) :
                DOMAIN nodes[id].items # {}
                    => PathString(NodePath(nodes, id)) \notin SetOf(call'.out)
        /\ nodes' = nodes /\ size' = size]_vars

\* walk has left out a node that has a child, carries a payload and was
\* the target of an add_path, and has returned two leaves.
WalkWitness ==
    /\ call.op = "walk"
    /\ Len(call.out) = 2
    /\ \E id \in Present(nodes) :
        /\ id # Root
        /\ DOMAIN nodes[id].items # {}
        /\ nodes[id].data # None
        /\ NodePath(nodes, id) \in inserted
        /\ PathString(NodePath(nodes, id)) \notin SetOf(call.out)

\* The nodes of ns are those of ms with the same names, parents and child
\* mappings, and ms has no others.
SameStructure(ns, ms) ==
    /\ Len(ns) = Len(ms)
    /\ \A id \in 1..Len(ns) :
        /\ ms[id].name = ns[id].name
        /\ ms[id].parent = ns[id].parent
        /\ ms[id].items = ns[id].items

\* Every node and child edge of ns is still in ms.
Kept(ns, ms) ==
    /\ Len(ns) <= Len(ms)
    /\ Present(ns) \subseteq Present(ms)
    /\ \A id \in 1..Len(ns) :
        /\ ms[id].name = ns[id].name
        /\ \A k \in DOMAIN ns[id].items :
            k \in DOMAIN ms[id].items /\ ms[id].items[k] = ns[id].items[k]

\* C6: add_path with an absolute path that an earlier add_path succeeded
\* with returns false and leaves size, the nodes and the child mappings as
\* they were; and no step removes a node or decreases size.
ReinsertIdempotent ==
    [][/\ (AddsAbsolute /\ PathValue(call'.path) \in inserted)
            => /\ call'.ret = "Ok(false)"
               /\ size' = size
               /\ SameStructure(nodes, nodes')
       /\ size' >= size
       /\ Kept(nodes, nodes')]_vars

\* A path of two segments has been inserted again, after other paths.
ReinsertWitness ==
    /\ Added /\ call.ret = "Ok(false)"
    /\ Len(PathValue(call.path)) = 2
    /\ PathValue(call.path) \in inserted
    /\ Cardinality(inserted) = 3

\* C7: after add_path(p, d) with an absolute p the node at p carries d,
\* absent or not; the nodes the call created for proper prefixes of p
\* carry nothing; every other node carries what it did.
PayloadPost ==
    [][AddsAbsolute =>
        LET at == NodesAt(nodes', PathValue(call'.path))
        IN  /\ Cardinality(at) = 1
            /\ \A t \in at :
                /\ nodes'[t].data = call'.data
                /\ \A id \in (1..Len(nodes')) \ {t} :
                    IF id <= Len(nodes)
                    THEN nodes'[id].data = nodes[id].data
                    ELSE /\ nodes'[id].data = None
                         /\ IsPrefix(NodePath(nodes', id), PathValue(call'.path))]_vars

\* add_path has created a node and its parent and has given the payload to
\* the node alone; the root keeps its own.
PayloadWitness ==
    /\ Added /\ call.ret = "Ok(true)" /\ call.data # None
    /\ size = 2
    /\ Len(PathValue(call.path)) = 2
    /\ Prefix(PathValue(call.path), 1) \notin inserted
    /\ \A t \in NodesAt(nodes, PathValue(call.path)) :
        nodes[t].data = call.data /\ nodes[nodes[t].parent].data = None
    /\ nodes[Root].data # None

RECURSIVE ParentReachesRoot(_, _, _)
ParentReachesRoot(ns, id, fuel) ==
    IF ns[id].parent = 0 THEN id = Root
    ELSE fuel > 0 /\ ns[id].parent \in 1..Len(ns)
            /\ ParentReachesRoot(ns, ns[id].parent, fuel - 1)

\* The places where node id is registered as a child: <<node, key>>.
Registrations(ns, id) ==
    UNION {{<<j, k>> : k \in {x \in DOMAIN ns[j].items : ns[j].items[x] = id}}
            : j \in 1..Len(ns)}

\* C8: the structure is a rooted tree. The root has no parent; every other
\* node is registered once, in the child mapping of the node its parent
\* reference designates, under its own name; the children of a node have
\* different names; every node is reachable from the root, by one sequence
\* of child edges, and no parent chain runs in a cycle.
RootedTree ==
    /\ nodes[Root].parent = 0
    /\ \A id \in 2..Len(nodes) :
        /\ Cardinality(Registrations(nodes, id)) = 1
        /\ \A r \in Registrations(nodes, id) :
            r[1] = nodes[id].parent /\ r[2] = nodes[id].name
    /\ Registrations(nodes, Root) = {}
    /\ \A i, j \in 2..Len(nodes) :
        (i # j /\ nodes[i].parent = nodes[j].parent) => nodes[i].name # nodes[j].name
    /\ Present(nodes) = 1..Len(nodes)
    /\ \A id \in 1..Len(nodes) : ParentReachesRoot(nodes, id, Len(nodes))
    /\ \A i, j \in 1..Len(nodes) :
        i # j => NodePath(nodes, i) # NodePath(nodes, j)

\* A tree with a node that has two children and a node at depth two.
RootedTreeWitness ==
    /\ size = 3
    /\ \E i, j, k \in 2..Len(nodes) :
        /\ i # j /\ nodes[i].parent = nodes[j].parent
        /\ Len(NodePath(nodes, k)) = 2

\* C10: walk never returns an empty list. With no child under the root it
\* returns the root path alone; with one, the root path is not returned; and
\* every path inserted so far is a path returned or a prefix of one.
WalkCoversInserted ==
    call.op = "walk" =>
        /\ call.out # <<>>
        /\ DOMAIN nodes[Root].items = {} => call.out = <<RootDir>>
        /\ DOMAIN nodes[Root].items # {} => RootDir \notin SetOf(call.out)
        /\ \A p \in inserted :
            \E i \in 1..Len(call.out) : IsPrefix(p, PathValue(call.out[i]))

\* walk on a store where only the root path has been inserted.
WalkRootWitness ==
    /\ call.op = "walk"
    /\ size = 0
    /\ inserted = {<<>>}
    /\ call.out = <<RootDir>>

\* C5, as the spec states it: the paths of a prefix-free set are inserted
\* into a new store and walk yields exactly that set.
RoundTripAsStated ==
    call.op = "walk" => SetOf(call.out) = given

\* C5: for a prefix-free set that is not empty, walk yields the paths of
\* the set, each as the string of its components joined by single
\* separators.
RoundTrip ==
    (call.op = "walk" /\ given # {})
        => SetOf(call.out) = {PathString(PathValue(p)) : p \in given}

\* walk has returned the two paths inserted, which share their first
\* segment.
RoundTripWitness ==
    /\ call.op = "walk"
    /\ Cardinality(given) = 2
    /\ \A p \in given : Len(PathValue(p)) = 2
    /\ \A p, q \in given : PathValue(p)[1] = PathValue(q)[1]
    /\ SetOf(call.out) = given

\* Two nodes have been created with the same name under the same parent.
Duplicates(ns) ==
    \E i, j \in 2..Len(ns) :
        i # j /\ ns[i].parent = ns[j].parent /\ ns[i].name = ns[j].name

AllIdle == \A t \in Threads : threads[t].pc = "idle"

\* C9: when add_path has the store to itself for the whole call no two
\* nodes get the same name under the same parent, and between calls size is
\* the number of nodes in the tree.  (That interleaved calls reach such a
\* state is RaceWitness.)
ExclusiveCallsKeepUnique ==
    coarse =>
        /\ ~Duplicates(nodes)
        /\ AllIdle => size = Cardinality(Present(nodes)) - 1

\* Interleaved calls have both found the child absent and both created it:
\* two nodes of one name under one parent, and size above the node count.
RaceWitness ==
    /\ ~coarse
    /\ AllIdle
    /\ Duplicates(nodes)
    /\ size > Cardinality(Present(nodes)) - 1

====
